---- MODULE Spec2Model ----
(***************************************************************************)
(* Just-In-Time queue injection engine of spotify-dj.                      *)
(*                                                                         *)
(* Two execution contexts share one JITQueueSync object: the foreground    *)
(* (start_dj_session, update_shadow_queue, stop_session,                   *)
(* start_injection_thread) and the background thread that executes         *)
(* run_injection_loop.  The Spotify service (playback state and the        *)
(* append-only live queue) is the environment.                             *)
(***************************************************************************)
EXTENDS Integers, Sequences, FiniteSets, TLC

(***************************************************************************)
(* Bounds of the model.                                                    *)
(***************************************************************************)
\* how many times update_shadow_queue is called
MaxUpdates == 1
\* how many identifiers the live queue of the service accepts
MaxExt == 2
\* how long a list given to a QueueManager that is used directly is
MaxLen == 2
\* how many calls a ConversationHistory receives
MaxCalls == 4
\* calls of start_injection_thread on one JITQueueSync object
MaxStarts == 2
\* seconds a session is followed for
MaxElapsed == 2
\* user/assistant pairs a conversation is followed for
MaxTurns == 3

(***************************************************************************)
(* Program constants (config.py, class JITConfig).  Durations are kept in  *)
(* milliseconds, as the service reports them.                              *)
(***************************************************************************)
INJECTION_THRESHOLD == 15
RETRY_ATTEMPTS == 3
MsPerSecond == 1000
\* the max_duration_seconds a caller passes to start_injection_thread
SessionDuration == 1

None == "None"

(***************************************************************************)
(* Input items.  An item stands for one {"title", "artist"} dict.  "M" is  *)
(* a dict with a missing or empty title or artist, "X" a well-formed item  *)
(* the catalogue search does not find.                                     *)
(***************************************************************************)
Songs == {"A", "B", "C", "D", "E", "X", "M"}

HasTitleAndArtist(song) == song # "M"

\* SpotifyClient.search_track: the track URI, or None
search_track(song) ==
    CASE song = "A" -> "uA"
      [] song = "B" -> "uB"
      [] song = "C" -> "uC"
      [] song = "D" -> "uD"
      [] song = "E" -> "uE"
      [] OTHER -> None

\* the lists start_dj_session is called with
InitialQueues == { <<>>, <<"X", "M">>, <<"A", "B", "C">> }

\* the lists update_shadow_queue is called with
NewQueues == { <<>>, <<"M", "D", "E">> }

\* what the service reports as progress_ms (playback advances and the
\* listener seeks between two polls) and as the duration_ms of a track
Progresses == {184999, 185000, 200001}
Durations == {0, 200000}

\* the lists a QueueManager that is used directly is given
QueueItems == {"A", "B", "X", "M"}
SongLists == UNION { [1..n -> QueueItems] : n \in 0..MaxLen }

\* the tracks the player can move to
PlayableUris == {"uA", "uB"}

Max(a, b) == IF a >= b THEN a ELSE b

(***************************************************************************)
(* QueueManager: pure parts.                                               *)
(***************************************************************************)
\* the conversion loop storing what the search returned, found or not
AppendResolved_unchecked(seq, song) ==
    IF ~HasTitleAndArtist(song) THEN seq
    ELSE Append(seq, search_track(song))

\* one pass of the conversion loop of __init__ and update_queue: an item
\* with a title and an artist that the search finds is appended
AppendResolved(seq, song) ==
    IF ~HasTitleAndArtist(song) THEN seq
    ELSE IF search_track(song) # None THEN Append(seq, search_track(song))
         ELSE seq

RECURSIVE ConvertSongs(_, _)
\* the conversion loop over a list of items, from the list built so far
ConvertSongs(seq, list) ==
    IF list = <<>> THEN seq
    ELSE ConvertSongs(AppendResolved(seq, Head(list)), Tail(list))

\* what QueueManager.__init__ stores for songs_list
ResolveSongs(list) == ConvertSongs(<<>>, list)

\* is_empty with the comparison off by one
is_empty_past_end(seq, idx) == idx > Len(seq)

is_empty(seq, idx) == idx >= Len(seq)

queue_length(seq, idx) == Max(0, Len(seq) - idx)

get_next_track_uri(seq, idx) == IF idx >= Len(seq) THEN None ELSE seq[idx + 1]

\* get_next_song without its test of the end of the list
IndexAfterPop_unguarded(seq, idx) == idx + 1

\* get_next_song starting over from the first item after the last one
IndexAfterPop_wraps(seq, idx) == IF idx + 1 >= Len(seq) THEN 0 ELSE idx + 1

\* the cursor after get_next_song
IndexAfterPop(seq, idx) == IF idx >= Len(seq) THEN idx ELSE idx + 1

\* the title and artist of a stored entry.  An entry is written by its URI;
\* its title and artist are those of the item that resolved to it
TitleArtist(entry) == CHOOSE song \in Songs : search_track(song) = entry

\* get_next_song returning the item after the one at the cursor
get_next_song_skips(seq, idx) ==
    IF idx + 1 >= Len(seq) THEN None ELSE TitleArtist(seq[idx + 2])

\* what get_next_song returns
get_next_song(seq, idx) ==
    IF idx >= Len(seq) THEN None ELSE TitleArtist(seq[idx + 1])

\* peek_next_song looking one item too far
peek_next_song_ahead(seq, idx) ==
    IF idx + 1 >= Len(seq) THEN None ELSE TitleArtist(seq[idx + 2])

peek_next_song(seq, idx) ==
    IF idx >= Len(seq) THEN None ELSE TitleArtist(seq[idx + 1])

\* start_dj_session going on to start_playback whatever the list holds
NoFirstTrack_ignored(resolved) == FALSE

\* lines 66-74 of start_dj_session: the new queue manager is empty or has
\* no first URI
NoFirstTrack(resolved) ==
    is_empty(resolved, 0) \/ get_next_track_uri(resolved, 0) = None

\* update_queue as its docstring has it ("Preserves current position")
IndexAfterUpdate_keep(idx) == idx

\* the cursor update_queue installs
IndexAfterUpdate(idx) == 0

(***************************************************************************)
(* SpotifyClient: pure parts.  A playback status is the dict returned by   *)
(* get_playback_status; ok = FALSE stands for the None it returns when the *)
(* request raised.                                                         *)
(***************************************************************************)
NoStatus == [ok |-> FALSE, is_playing |-> FALSE, progress_ms |-> 0, duration_ms |-> 0]

get_playback_status(raised, item, playing, progress, duration) ==
    IF raised THEN NoStatus
    ELSE IF item = None
         THEN [ok |-> TRUE, is_playing |-> FALSE, progress_ms |-> 0, duration_ms |-> 0]
         ELSE [ok |-> TRUE, is_playing |-> playing, progress_ms |-> progress,
               duration_ms |-> duration]

\* calculate_time_until_end that leaves a negative difference as it is
calculate_time_until_end_unclamped(status) ==
    IF ~status.ok \/ ~status.is_playing THEN -1
    ELSE IF status.duration_ms <= 0 THEN -1
    ELSE status.duration_ms - status.progress_ms

\* milliseconds until the end of the track (the code returns them divided by
\* 1000.0), or -1 when there is no playback
calculate_time_until_end(status) ==
    IF ~status.ok \/ ~status.is_playing THEN -1
    ELSE IF status.duration_ms <= 0 THEN -1
    ELSE IF status.duration_ms - status.progress_ms < 0 THEN 0
    ELSE status.duration_ms - status.progress_ms

\* should_inject_next with a strict comparison against the threshold
should_inject_next_strict(status) ==
    LET time_until_end == calculate_time_until_end(status)
    IN IF time_until_end < 0 THEN FALSE
       ELSE time_until_end < INJECTION_THRESHOLD * MsPerSecond

should_inject_next(status) ==
    LET time_until_end == calculate_time_until_end(status)
    IN IF time_until_end < 0 THEN FALSE
       ELSE time_until_end <= INJECTION_THRESHOLD * MsPerSecond

\* the retry delay taken after every failed attempt, the last included
RetryAfter_always(n) == n < RETRY_ATTEMPTS

\* the condition under which a failed attempt is followed by the retry delay
RetryAfter(n) == n < RETRY_ATTEMPTS - 1

\* a loop condition that does not read the flag
LoopContinues_always(flag) == TRUE

\* the condition of the while loop
LoopContinues(flag) == flag

\* a timeout check that does not look whether a duration was given
TimedOut_unconditional(duration_given, seconds) == seconds > SessionDuration

\* lines 118-120: max_duration_seconds is not None and elapsed exceeds it
TimedOut(duration_given, seconds) ==
    duration_given /\ seconds > SessionDuration

\* line 137 without the comparison with the last track seen
TrackChanged_any(current_uri, last) == current_uri # None

\* line 137: the request returned an item and it is not the last one seen
TrackChanged(current_uri, last) == current_uri # None /\ current_uri # last

\* line 126 with a status of None let through
PlaybackEnded_not_playing_only(status) == status.ok /\ ~status.is_playing

\* line 126: the status request failed or reports no playback
PlaybackEnded(status) == ~status.ok \/ ~status.is_playing

(***************************************************************************)
(* State.                                                                  *)
(***************************************************************************)
VARIABLES
    \* JITQueueSync
    queue_manager,                \* TRUE once start_dj_session created it
    running,
    last_injected_uri,
    last_played_uri,
    already_injected_for_current,
    debug_writer,                 \* "none", "open" or "closed"
    \* QueueManager
    songs_with_uris,
    current_index,
    lock,                         \* "free", or "fg" while update_queue holds it
    \* the foreground
    fg,                           \* "idle", or "updating" inside update_queue
    pending,                      \* items update_queue has not converted yet
    started,                      \* what start_dj_session returned: "no", "true", "false"
    updates,                      \* number of update_shadow_queue calls so far
    \* the injection thread
    pc,
    max_duration_set,             \* max_duration_seconds is not None
    next_uri,
    attempt,
    snap,                         \* the status should_inject_next decided on
    exit_reason,
    \* the Spotify service
    envItem, envPlaying,
    extQueue,                     \* identifiers appended to the live queue
    elapsed,                      \* seconds since start_time (line 100)
    \* bookkeeping for the properties
    stop_requested,               \* stop_session was called since the thread started
    inj_since_change,             \* successful appends since the playing track changed
    attempts_made, delays_made, fails_made, outcome,
    failed_uri, peek_gen,
    update_returned,              \* update_shadow_queue returned and nothing was appended since
    update_arg,                   \* the list the QueueManager converted last
    pops_since_update,
    polled,                       \* what the status request of this cycle returned
    start_arg,                    \* the argument of start_dj_session
    start_playback_requested,     \* start_dj_session called start_playback
    \* a QueueManager called directly, as test_jit_queue.py does
    last_call,                    \* the method called last
    prev_call,                    \* the method called before it
    returned,                     \* what the last call returned
    index_before_update,          \* the cursor the last update_queue found
    \* ConversationHistory
    messages,
    calls,                        \* the calls made so far, oldest first
    history,                      \* the list the last get_history returned
    history_shared,               \* that list is the stored list itself
    \* the player and the live queue
    played,                       \* identifiers of the live queue played so far
    heard,                        \* what the loop polled while this track
                                  \* plays: "no", "seen" (its identifier), "yes"
                                  \* (then a status inside the threshold)
    polled_uri,                   \* what the track-change request of this cycle
                                  \* returned
    stopped_running,              \* stop_session was called with running True
    inj_after_stop,               \* successful appends since then
    \* a second injection thread of the same object
    other,                        \* the local variables of the thread that is
                                  \* not the one pc belongs to
    starts                        \* number of start_injection_thread calls

jitVars == <<queue_manager, running, last_injected_uri, last_played_uri,
             already_injected_for_current, debug_writer>>
qmVars == <<songs_with_uris, current_index, lock>>
fgVars == <<fg, pending, started, updates>>
loopVars == <<pc, max_duration_set, next_uri, attempt, snap, exit_reason>>
envVars == <<envItem, envPlaying, extQueue, elapsed>>
retryBook == <<attempts_made, delays_made, fails_made, outcome>>
failBook == <<failed_uri, peek_gen>>
updBook == <<update_returned, update_arg, pops_since_update>>
bookVars == <<stop_requested, inj_since_change, retryBook, failBook, updBook>>
startBook == <<start_arg, start_playback_requested>>
callVars == <<last_call, prev_call, returned, index_before_update>>
convVars == <<messages, calls, history, history_shared>>
playBook == <<played, heard>>
stopBook == <<stopped_running, inj_after_stop>>
reentryVars == <<other, starts>>
vars == <<jitVars, qmVars, fgVars, loopVars, envVars, bookVars, polled,
          startBook, callVars, convVars, playBook, polled_uri, stopBook,
          reentryVars>>

\* the local variables of a thread that was never started
NoThread == [pc |-> "idle", max_duration_set |-> FALSE, next_uri |-> None,
             attempt |-> 0, snap |-> NoStatus]

\* the state after JITQueueSync(spotify_client, debug_writer)
InitState(writer) ==
    /\ queue_manager = FALSE
    /\ running = FALSE
    /\ last_injected_uri = None
    /\ last_played_uri = None
    /\ already_injected_for_current = FALSE
    /\ debug_writer = writer
    /\ songs_with_uris = <<>>
    /\ current_index = 0
    /\ lock = "free"
    /\ fg = "idle"
    /\ pending = <<>>
    /\ started = "no"
    /\ updates = 0
    /\ pc = "idle"
    /\ max_duration_set = FALSE
    /\ next_uri = None
    /\ attempt = 0
    /\ snap = NoStatus
    /\ exit_reason = None
    /\ envItem = None
    /\ envPlaying = FALSE
    /\ extQueue = <<>>
    /\ elapsed = 0
    /\ stop_requested = FALSE
    /\ inj_since_change = 0
    /\ attempts_made = 0
    /\ delays_made = 0
    /\ fails_made = 0
    /\ outcome = None
    /\ failed_uri = None
    /\ peek_gen = 0
    /\ update_returned = FALSE
    /\ update_arg = <<>>
    /\ pops_since_update = 0
    /\ polled = None
    /\ start_arg = <<>>
    /\ start_playback_requested = FALSE
    /\ last_call = None
    /\ prev_call = None
    /\ returned = None
    /\ index_before_update = 0
    /\ messages = <<>>
    /\ calls = <<>>
    /\ history = <<>>
    /\ history_shared = FALSE
    /\ played = 0
    /\ heard = "no"
    /\ polled_uri = None
    /\ stopped_running = FALSE
    /\ inj_after_stop = 0
    /\ other = NoThread
    /\ starts = 0

\* main.py without --debug: no debug writer
Init == InitState("none")

\* main.py with --debug: an enabled debug writer
InitObserved == InitState("open")

(***************************************************************************)
(* The foreground: JITQueueSync.start_dj_session, update_shadow_queue,     *)
(* stop_session, start_injection_thread, and DebugWriter.close.            *)
(***************************************************************************)
\* start_dj_session(initial_queue), called once per JITQueueSync object
start_dj_session(initial_queue) ==
    /\ started = "no"
    /\ fg = "idle"
    /\ start_arg' = initial_queue
    /\ IF initial_queue = <<>>
       THEN /\ started' = "false"
            /\ start_playback_requested' = FALSE
            /\ UNCHANGED <<queue_manager, songs_with_uris, current_index,
                           last_injected_uri, envItem, envPlaying, inj_since_change>>
       ELSE LET resolved == ResolveSongs(initial_queue)
                first_uri == get_next_track_uri(resolved, 0)
            IN /\ queue_manager' = TRUE
               /\ songs_with_uris' = resolved
               /\ current_index' = 0
               /\ IF NoFirstTrack(resolved)
                  THEN /\ started' = "false"
                       /\ start_playback_requested' = FALSE
                       /\ UNCHANGED <<last_injected_uri, envItem, envPlaying, inj_since_change>>
                  ELSE \E playback_started \in BOOLEAN :
                         /\ start_playback_requested' = TRUE
                         /\ IF playback_started
                            THEN /\ envItem' = first_uri
                                 /\ envPlaying' = TRUE
                                 /\ inj_since_change' = 0
                                 /\ last_injected_uri' = first_uri
                                 /\ started' = "true"
                            ELSE /\ started' = "false"
                                 /\ UNCHANGED <<last_injected_uri, envItem, envPlaying,
                                                inj_since_change>>
    /\ UNCHANGED <<playBook, polled_uri, stopBook, reentryVars,
                   polled, callVars, convVars,
                   running, last_played_uri, already_injected_for_current,
                   debug_writer, lock, fg, pending, updates, loopVars,
                   extQueue, elapsed, stop_requested, retryBook, failBook,
                   updBook>>

\* what update_shadow_queue returns when it returns True whatever it did
update_shadow_queue_result_true(replaced) == TRUE

\* lines 270 and 281: False without a queue manager, True after update_queue
update_shadow_queue_result(replaced) == replaced

\* update_shadow_queue without a queue manager: returns False
update_rejected ==
    /\ fg = "idle"
    /\ ~queue_manager
    /\ updates < MaxUpdates
    /\ updates' = updates + 1
    /\ last_call' = "update_shadow_queue"
    /\ returned' = update_shadow_queue_result(FALSE)
    /\ UNCHANGED <<jitVars, qmVars, fg, pending, started, loopVars, envVars,
                   bookVars, polled, startBook, prev_call, index_before_update,
                   convVars,
                   playBook, polled_uri, stopBook, reentryVars>>

\* update_shadow_queue -> QueueManager.update_queue: the lock is taken, the
\* list and the cursor are reset
update_queue_acquire(new_songs_list) ==
    /\ fg = "idle"
    /\ queue_manager
    /\ updates < MaxUpdates
    /\ lock = "free"
    /\ lock' = "fg"
    /\ songs_with_uris' = <<>>
    /\ current_index' = IndexAfterUpdate(current_index)
    /\ pending' = new_songs_list
    /\ fg' = "updating"
    /\ updates' = updates + 1
    /\ update_arg' = new_songs_list
    /\ update_returned' = FALSE
    /\ pops_since_update' = 0
    /\ failed_uri' = None
    /\ UNCHANGED <<playBook, polled_uri, stopBook, reentryVars,
                   polled, startBook, callVars, convVars,
                   jitVars, started, loopVars, envVars, stop_requested,
                   inj_since_change, retryBook, peek_gen>>

\* the conversion loop of update_queue with its search requests, inside
\* the lock
update_queue_convert ==
    /\ fg = "updating"
    /\ pending # <<>>
    /\ songs_with_uris' = ConvertSongs(songs_with_uris, pending)
    /\ pending' = <<>>
    /\ UNCHANGED <<playBook, polled_uri, stopBook, reentryVars,
                   polled, startBook, callVars, convVars,
                   jitVars, current_index, lock, fg, started, updates,
                   loopVars, envVars, bookVars>>

\* an update that clears the latch, to inject from the new list at once
LatchAfterUpdate_cleared(latch) == FALSE

\* lines 273-281: update_shadow_queue assigns no attribute of the session
LatchAfterUpdate(latch) == latch

\* the end of update_queue: the lock is released and update_shadow_queue
\* logs the event and returns True
update_queue_release ==
    /\ fg = "updating"
    /\ pending = <<>>
    /\ already_injected_for_current' =
           LatchAfterUpdate(already_injected_for_current)
    /\ lock' = "free"
    /\ fg' = "idle"
    /\ update_returned' = (debug_writer # "closed")
    /\ IF debug_writer # "closed"
       THEN /\ last_call' = "update_shadow_queue"
            /\ returned' = update_shadow_queue_result(TRUE)
       ELSE UNCHANGED <<last_call, returned>>
    /\ UNCHANGED <<playBook, polled_uri, stopBook, reentryVars,
                   polled, startBook, prev_call, index_before_update, convVars,
                   queue_manager, running, last_injected_uri, last_played_uri,
                   debug_writer, songs_with_uris, current_index, pending, started,
                   updates, loopVars, envVars, stop_requested,
                   inj_since_change, retryBook, failBook, update_arg,
                   pops_since_update>>

stop_session ==
    /\ running' = FALSE
    /\ stop_requested' = (stop_requested \/ pc # "idle")
    /\ stopped_running' = (stopped_running \/ running)
    /\ UNCHANGED <<playBook, polled_uri, inj_after_stop, reentryVars,
                   polled, startBook, callVars, convVars,
                   queue_manager, last_injected_uri, last_played_uri,
                   already_injected_for_current, debug_writer, qmVars, fgVars,
                   loopVars, envVars, inj_since_change, retryBook, failBook, updBook>>

\* start_injection_thread(max_duration_seconds): the thread is created and
\* started; its body runs from ThreadEntry on.  main.py starts it once per
\* JITQueueSync object
start_injection_thread(with_max_duration) ==
    /\ pc = "idle"
    /\ pc' = "entry"
    /\ max_duration_set' = with_max_duration
    /\ exit_reason' = None
    /\ stop_requested' = FALSE
    /\ starts' = 1
    /\ UNCHANGED <<playBook, polled_uri, stopBook, other,
                   polled, startBook, callVars, convVars,
                   jitVars, qmVars, fg, pending, started, updates, next_uri,
                   attempt, snap, envVars, inj_since_change, retryBook, failBook,
                   updBook>>

\* DebugWriter.close, which main.py calls when main() has returned
debug_writer_close ==
    /\ debug_writer = "open"
    /\ debug_writer' = "closed"
    /\ UNCHANGED <<playBook, polled_uri, stopBook, reentryVars,
                   polled, startBook, callVars, convVars,
                   queue_manager, running, last_injected_uri, last_played_uri,
                   already_injected_for_current, qmVars, fgVars, loopVars,
                   envVars, bookVars>>

(***************************************************************************)
(* The injection thread: JITQueueSync.run_injection_loop.                  *)
(***************************************************************************)
\* what a log call of the debug writer does: it raises once the writer is
\* closed (enabled stays True, _file is None)
LogRaises == debug_writer = "closed"

\* leaving the loop: the finally clause
LoopExit(reason) ==
    /\ pc' = "done"
    /\ running' = FALSE
    /\ exit_reason' = reason
    /\ next_uri' = None
    /\ attempt' = 0
    /\ snap' = NoStatus

\* an exception inside the try: the except clause logs it with log_error,
\* which raises out of the thread when the writer is closed
LoopRaise == LoopExit(IF LogRaises THEN "escaped" ELSE "error")

\* lines 102-112
ThreadEntry ==
    /\ pc = "entry"
    /\ IF ~queue_manager
       THEN /\ pc' = "done"
            /\ exit_reason' = "no_queue_manager"
            /\ UNCHANGED <<running, elapsed>>
       ELSE /\ running' = TRUE
            /\ pc' = "while"
            /\ elapsed' = 0
            /\ UNCHANGED exit_reason
    /\ UNCHANGED <<playBook, polled_uri, stopBook, reentryVars,
                   polled, startBook, callVars, convVars,
                   queue_manager, last_injected_uri, last_played_uri,
                   already_injected_for_current, debug_writer, qmVars, fgVars,
                   max_duration_set, next_uri, attempt, snap, envItem, envPlaying, extQueue, bookVars>>

\* lines 116-122: the loop condition and the timeout check
LoopWhile ==
    /\ pc = "while"
    /\ IF ~LoopContinues(running) THEN LoopExit("stopped")
       ELSE IF TimedOut(max_duration_set, elapsed) THEN LoopExit("timeout")
       ELSE /\ pc' = "status"
            /\ snap' = NoStatus
            /\ UNCHANGED <<running, exit_reason, next_uri, attempt>>
    /\ attempts_made' = 0
    /\ delays_made' = 0
    /\ fails_made' = 0
    /\ outcome' = None
    /\ polled' = None
    /\ UNCHANGED <<playBook, polled_uri, stopBook, reentryVars,
                   startBook, callVars, convVars,
                   queue_manager, last_injected_uri, last_played_uri,
                   already_injected_for_current, debug_writer, qmVars, fgVars,
                   max_duration_set, envVars, stop_requested, inj_since_change,
                   failBook, updBook>>

\* lines 125-128
LoopStatus ==
    /\ pc = "status"
    /\ \E raised \in BOOLEAN, progress \in Progresses, duration \in Durations :
         LET status == get_playback_status(raised, envItem, envPlaying,
                                           progress, duration)
             item_playing == envItem # None /\ envPlaying
         IN /\ polled' = IF raised THEN "unavailable"
                         ELSE IF item_playing THEN "playing" ELSE "not_playing"
            /\ IF PlaybackEnded(status)
               THEN LoopExit("playback_stopped")
               ELSE /\ pc' = "detect"
                    /\ UNCHANGED <<running, exit_reason, next_uri, attempt, snap>>
    /\ UNCHANGED <<playBook, polled_uri, stopBook, reentryVars,
                   startBook, callVars, convVars,
                   queue_manager, last_injected_uri, last_played_uri,
                   already_injected_for_current, debug_writer, qmVars, fgVars,
                   max_duration_set, envVars, bookVars>>

\* the record of a track-change request that returned the playing item
HeardAfterDetect(current_uri) ==
    IF current_uri # None /\ heard = "no" THEN "seen" ELSE heard

\* lines 131-144: track-change detection
LoopDetect ==
    /\ pc = "detect"
    /\ \E raised \in BOOLEAN, current_uri \in {envItem, None} :
         IF raised
         THEN /\ LoopRaise
              /\ polled_uri' = None
              /\ UNCHANGED <<heard, last_played_uri, already_injected_for_current>>
         ELSE IF TrackChanged(current_uri, last_played_uri)
              THEN IF debug_writer # "none" /\ LogRaises
                   THEN /\ LoopRaise
                        /\ polled_uri' = None
                        /\ UNCHANGED <<heard, last_played_uri,
                                       already_injected_for_current>>
                   ELSE /\ last_played_uri' = current_uri
                        /\ already_injected_for_current' = FALSE
                        /\ pc' = "sleep"
                        /\ polled_uri' = current_uri
                        /\ heard' = HeardAfterDetect(current_uri)
                        /\ UNCHANGED <<running, exit_reason, next_uri, attempt, snap>>
              ELSE /\ pc' = "sleep"
                   /\ polled_uri' = current_uri
                   /\ heard' = HeardAfterDetect(current_uri)
                   /\ UNCHANGED <<running, exit_reason, next_uri, attempt, snap,
                                  last_played_uri, already_injected_for_current>>
    /\ UNCHANGED <<played, stopBook, reentryVars,
                   polled, startBook, callVars, convVars,
                   queue_manager, last_injected_uri, debug_writer, qmVars, fgVars,
                   max_duration_set, envVars, bookVars>>

\* line 147
LoopSleep ==
    /\ pc = "sleep"
    /\ pc' = IF debug_writer # "none" THEN "log" ELSE "should"
    /\ polled_uri' = None
    /\ UNCHANGED <<playBook, stopBook, reentryVars,
                   polled, startBook, callVars, convVars,
                   jitVars, qmVars, fgVars, max_duration_set, next_uri, attempt,
                   snap, exit_reason, envVars, bookVars>>

\* lines 150-196: the cycle snapshot; queue_length, is_empty and
\* peek_next_song take the lock
LoopLogCycle ==
    /\ pc = "log"
    /\ lock = "free"
    /\ IF LogRaises THEN LoopRaise
       ELSE /\ pc' = "should"
            /\ UNCHANGED <<running, exit_reason, next_uri, attempt, snap>>
    /\ UNCHANGED <<playBook, polled_uri, stopBook, reentryVars,
                   polled, startBook, callVars, convVars,
                   queue_manager, last_injected_uri, last_played_uri,
                   already_injected_for_current, debug_writer, qmVars, fgVars,
                   max_duration_set, envVars, bookVars>>

\* lines 199-202: the eligibility decision on a fresh status
LoopShouldInject ==
    /\ pc = "should"
    /\ \E raised \in BOOLEAN, progress \in Progresses, duration \in Durations :
         LET status == get_playback_status(raised, envItem, envPlaying,
                                           progress, duration)
         IN /\ snap' = status
            /\ heard' = IF heard = "seen" /\ should_inject_next(status)
                        THEN "yes" ELSE heard
            /\ pc' = IF should_inject_next(status) /\ ~already_injected_for_current
                     THEN "empty" ELSE "while"
    /\ UNCHANGED <<played, polled_uri, stopBook, reentryVars,
                   polled, startBook, callVars, convVars,
                   jitVars, qmVars, fgVars, max_duration_set, next_uri, attempt,
                   exit_reason, envVars, bookVars>>

\* lines 203-205
LoopIsEmpty ==
    /\ pc = "empty"
    /\ lock = "free"
    /\ IF is_empty(songs_with_uris, current_index) THEN LoopExit("exhausted")
       ELSE /\ pc' = "peek"
            /\ UNCHANGED <<running, exit_reason, next_uri, attempt, snap>>
    /\ UNCHANGED <<playBook, polled_uri, stopBook, reentryVars,
                   polled, startBook, callVars, convVars,
                   queue_manager, last_injected_uri, last_played_uri,
                   already_injected_for_current, debug_writer, qmVars, fgVars,
                   max_duration_set, envVars, bookVars>>

\* lines 207-213
LoopPeek ==
    /\ pc = "peek"
    /\ lock = "free"
    /\ LET uri == get_next_track_uri(songs_with_uris, current_index)
       IN IF uri = None
          THEN /\ LoopExit("exhausted")
               /\ UNCHANGED peek_gen
          ELSE /\ next_uri' = uri
               /\ attempt' = 0
               /\ pc' = "attempt"
               /\ peek_gen' = updates
               /\ UNCHANGED <<running, exit_reason, snap>>
    /\ UNCHANGED <<playBook, polled_uri, stopBook, reentryVars,
                   polled, startBook, callVars, convVars,
                   queue_manager, last_injected_uri, last_played_uri,
                   already_injected_for_current, debug_writer, qmVars, fgVars,
                   max_duration_set, envVars, stop_requested, inj_since_change,
                   retryBook, failed_uri, updBook>>

\* the for loop with a session that ends when the injection has failed
AfterFailedAttempt_gives_up ==
    IF attempt + 1 < RETRY_ATTEMPTS
    THEN /\ attempt' = attempt + 1
         /\ pc' = "attempt"
         /\ UNCHANGED <<running, exit_reason, next_uri, snap, outcome, failed_uri>>
    ELSE /\ outcome' = "failed"
         /\ failed_uri' = IF peek_gen = updates THEN next_uri ELSE None
         /\ LoopExit("error")

\* the end of one pass of the for loop that did not inject: the next
\* attempt, or lines 237-246 when the range is used up
AfterFailedAttempt ==
    IF attempt + 1 < RETRY_ATTEMPTS
    THEN /\ attempt' = attempt + 1
         /\ pc' = "attempt"
         /\ UNCHANGED <<running, exit_reason, next_uri, snap, outcome,
                        failed_uri>>
    ELSE /\ outcome' = "failed"
         /\ failed_uri' = IF peek_gen = updates THEN next_uri ELSE None
         /\ IF debug_writer # "none" /\ LogRaises THEN LoopRaise
            ELSE /\ pc' = "while"
                 /\ UNCHANGED <<running, exit_reason, next_uri, attempt, snap>>

\* lines 215-235: one call of inject_next_song
LoopAttemptWith(succeeded) ==
    /\ pc = "attempt"
    /\ attempts_made' = attempts_made + 1
    /\ IF succeeded
         THEN /\ Len(extQueue) < MaxExt
              /\ extQueue' = Append(extQueue, next_uri)
              /\ inj_after_stop' = IF stopped_running /\ inj_after_stop < 2
                                   THEN inj_after_stop + 1 ELSE inj_after_stop
              /\ update_returned' = FALSE
              /\ inj_since_change' = IF inj_since_change < 2
                                      THEN inj_since_change + 1 ELSE 2
              /\ IF debug_writer # "none" /\ LogRaises THEN LoopRaise
                 ELSE /\ pc' = "pop"
                      /\ UNCHANGED <<running, exit_reason, next_uri, attempt, snap>>
              /\ UNCHANGED <<fails_made, outcome, failed_uri>>
         ELSE /\ fails_made' = fails_made + 1
              /\ UNCHANGED <<extQueue, update_returned, inj_since_change,
                             inj_after_stop>>
              /\ IF RetryAfter(attempt)
                 THEN /\ pc' = "retry_sleep"
                      /\ UNCHANGED <<running, exit_reason, next_uri, attempt, snap,
                                     outcome, failed_uri>>
                 ELSE AfterFailedAttempt
    /\ UNCHANGED <<playBook, polled_uri, stopped_running, reentryVars,
                   polled, startBook, callVars, convVars,
                   queue_manager, last_injected_uri, last_played_uri,
                   already_injected_for_current, debug_writer, qmVars, fgVars,
                   max_duration_set, envItem, envPlaying,
                   elapsed, stop_requested, delays_made, peek_gen,
                   update_arg, pops_since_update>>

\* the request of inject_next_song succeeds or fails
LoopAttempt == \E succeeded \in BOOLEAN : LoopAttemptWith(succeeded)

\* line 235: the retry delay
LoopRetrySleep ==
    /\ pc = "retry_sleep"
    /\ delays_made' = delays_made + 1
    /\ AfterFailedAttempt
    /\ UNCHANGED <<playBook, polled_uri, stopBook, reentryVars,
                   polled, startBook, callVars, convVars,
                   queue_manager, last_injected_uri, last_played_uri,
                   already_injected_for_current, debug_writer, qmVars, fgVars,
                   max_duration_set, envVars, stop_requested, inj_since_change,
                   attempts_made, fails_made, peek_gen, updBook>>

\* a success branch that leaves last_injected_uri as it was
LastInjectedAfterSuccess_kept(previous, appended) == previous

\* line 224: self.last_injected_uri = next_uri
LastInjectedAfterSuccess(previous, appended) == appended

\* lines 223-229: get_next_song under the lock, then the injection state
LoopPop ==
    /\ pc = "pop"
    /\ lock = "free"
    /\ current_index' = IndexAfterPop(songs_with_uris, current_index)
    /\ last_injected_uri' = LastInjectedAfterSuccess(last_injected_uri, next_uri)
    /\ already_injected_for_current' = TRUE
    /\ pc' = "while"
    /\ outcome' = "ok"
    /\ failed_uri' = None
    /\ pops_since_update' = pops_since_update + 1
    /\ UNCHANGED <<playBook, polled_uri, stopBook, reentryVars,
                   polled, startBook, callVars, convVars,
                   queue_manager, running, last_played_uri, debug_writer,
                   songs_with_uris, lock, fgVars, max_duration_set, next_uri,
                   attempt, snap, exit_reason, envVars, stop_requested,
                   inj_since_change,
                   attempts_made, delays_made, fails_made, peek_gen,
                   update_returned, update_arg>>

(***************************************************************************)
(* The Spotify service.                                                    *)
(***************************************************************************)
\* the player moves to another track (the next of the live queue, or a skip)
EnvTrackChange ==
    /\ queue_manager
    /\ \E u \in PlayableUris : envItem' = u
    /\ envPlaying' = TRUE
    /\ inj_since_change' = 0
    /\ UNCHANGED <<playBook, polled_uri, stopBook, reentryVars,
                   polled, startBook, callVars, convVars,
                   jitVars, qmVars, fgVars, loopVars, extQueue, elapsed,
                   stop_requested, retryBook, failBook, updBook>>

\* playback pauses or ends
EnvStop ==
    /\ envPlaying
    /\ envPlaying' = FALSE
    /\ UNCHANGED <<playBook, polled_uri, stopBook, reentryVars,
                   polled, startBook, callVars, convVars,
                   jitVars, qmVars, fgVars, loopVars, envItem, extQueue, elapsed, bookVars>>

\* a second of the session passes
EnvTimePasses ==
    /\ pc \notin {"idle", "entry", "done"}
    /\ elapsed < MaxElapsed
    /\ elapsed' = elapsed + 1
    /\ UNCHANGED <<playBook, polled_uri, stopBook, reentryVars,
                   polled, startBook, callVars, convVars,
                   jitVars, qmVars, fgVars, loopVars, envItem, envPlaying, extQueue, bookVars>>

\* the steps of a session without a debug writer and without a maximal
\* session duration; update_shadow_queue is called once a queue manager
\* exists
Next ==
    \/ \E q \in InitialQueues : start_dj_session(q)
    \/ \E q \in NewQueues : update_queue_acquire(q)
    \/ update_queue_convert
    \/ update_queue_release
    \/ stop_session
    \/ start_injection_thread(FALSE)
    \/ ThreadEntry
    \/ LoopWhile
    \/ LoopStatus
    \/ LoopDetect
    \/ LoopSleep
    \/ LoopShouldInject
    \/ LoopIsEmpty
    \/ LoopPeek
    \/ LoopAttempt
    \/ LoopRetrySleep
    \/ LoopPop
    \/ EnvTrackChange
    \/ EnvStop

Spec == Init /\ [][Next]_vars

\* the steps of a session with a debug writer, which main.py closes while
\* the injection thread may still run
NextObserved ==
    \/ Next
    \/ LoopLogCycle
    \/ debug_writer_close

SpecObserved == InitObserved /\ [][NextObserved]_vars

\* the steps of a session whose loop is started with or without a maximal
\* duration, while time passes; update_shadow_queue is not called
NextTimed ==
    \/ \E q \in InitialQueues : start_dj_session(q)
    \/ stop_session
    \/ \E with_max_duration \in BOOLEAN :
          start_injection_thread(with_max_duration)
    \/ ThreadEntry
    \/ LoopWhile
    \/ LoopStatus
    \/ LoopDetect
    \/ LoopSleep
    \/ LoopShouldInject
    \/ LoopIsEmpty
    \/ LoopPeek
    \/ LoopAttempt
    \/ LoopRetrySleep
    \/ LoopPop
    \/ EnvTrackChange
    \/ EnvStop
    \/ EnvTimePasses

SpecTimed == Init /\ [][NextTimed]_vars

\* the steps of an object on which update_shadow_queue is called at any
\* time, before start_dj_session too, beside a loop whose append requests
\* succeed and a player that stays on its track
NextUpdate ==
    \/ \E q \in InitialQueues : start_dj_session(q)
    \/ update_rejected
    \/ \E q \in NewQueues : update_queue_acquire(q)
    \/ update_queue_convert
    \/ update_queue_release
    \/ start_injection_thread(FALSE)
    \/ ThreadEntry
    \/ LoopWhile
    \/ LoopStatus
    \/ LoopDetect
    \/ LoopSleep
    \/ LoopShouldInject
    \/ LoopIsEmpty
    \/ LoopPeek
    \/ LoopAttemptWith(TRUE)
    \/ LoopPop

SpecUpdate == Init /\ [][NextUpdate]_vars

(***************************************************************************)
(* A session whose player advances through the live queue: each track      *)
(* ends after a cycle of the loop got its identifier and then a status     *)
(* inside the threshold, and outside an injection; the player then moves   *)
(* to the next identifier of the live queue, or stops when there is none.  *)
(* Every append request succeeds; stop_session and update_shadow_queue are *)
(* not called.                                                             *)
(***************************************************************************)
\* the loop had a cycle inside the threshold of the track that plays
TrackMayEnd ==
    /\ envPlaying
    /\ heard = "yes"
    /\ pc \in {"while", "status", "detect", "sleep", "should"}

\* the track ends and the player moves to the next item of the live queue
EnvNextTrack ==
    /\ TrackMayEnd
    /\ played < Len(extQueue)
    /\ envItem' = extQueue[played + 1]
    /\ played' = played + 1
    /\ heard' = "no"
    /\ inj_since_change' = 0
    /\ UNCHANGED <<jitVars, qmVars, fgVars, loopVars, envPlaying, extQueue,
                   elapsed, stop_requested, retryBook, failBook, updBook,
                   polled, startBook, callVars, convVars, polled_uri, stopBook,
                   reentryVars>>

\* the track ends with nothing left in the live queue: playback stops
EnvQueueEnds ==
    /\ TrackMayEnd
    /\ played = Len(extQueue)
    /\ envPlaying' = FALSE
    /\ UNCHANGED <<jitVars, qmVars, fgVars, loopVars, envItem, extQueue,
                   elapsed, bookVars, polled, startBook, callVars,
                   convVars, playBook, polled_uri, stopBook, reentryVars>>

NextPlayback ==
    \/ \E q \in InitialQueues : start_dj_session(q)
    \/ start_injection_thread(FALSE)
    \/ ThreadEntry
    \/ LoopWhile
    \/ LoopStatus
    \/ LoopDetect
    \/ LoopSleep
    \/ LoopShouldInject
    \/ LoopIsEmpty
    \/ LoopPeek
    \/ LoopAttemptWith(TRUE)
    \/ LoopPop
    \/ EnvNextTrack
    \/ EnvQueueEnds

SpecPlayback == Init /\ [][NextPlayback]_vars

(***************************************************************************)
(* A caller that calls start_injection_thread more than once on the same   *)
(* JITQueueSync object.  Each call creates and starts a thread that runs   *)
(* run_injection_loop on the object.  Two threads are followed: pc,        *)
(* max_duration_set, next_uri, attempt and snap are the local variables of *)
(* one of them, other holds those of the second, and Switch exchanges the  *)
(* two, so that the loop actions step either thread in any interleaving.   *)
(* update_shadow_queue is not called, every append request succeeds and    *)
(* the player stays on its track until it stops.                           *)
(***************************************************************************)
\* the positions of a thread inside the while loop of run_injection_loop
RunningPcs == {"while", "status", "detect", "sleep", "log", "should", "empty",
               "peek", "attempt", "retry_sleep", "pop"}

\* a thread that was started and has not returned
Alive(thread_pc) == thread_pc \notin {"idle", "done"}

\* start_injection_thread called again: lines 299-303 create and start a
\* thread whatever the state of the object.  After the only earlier thread
\* has returned the new thread is followed in its place; beside a thread
\* that is alive (or after two threads) it is the second thread
start_injection_thread_again(with_max_duration) ==
    /\ starts >= 1
    /\ starts < MaxStarts
    /\ starts' = starts + 1
    /\ IF pc = "done" /\ other = NoThread
       THEN /\ pc' = "entry"
            /\ max_duration_set' = with_max_duration
            /\ UNCHANGED other
       ELSE /\ ~Alive(other.pc)
            /\ other' = [NoThread EXCEPT !.pc = "entry",
                                         !.max_duration_set = with_max_duration]
            /\ UNCHANGED <<pc, max_duration_set>>
    /\ UNCHANGED <<jitVars, qmVars, fgVars, next_uri, attempt, snap, exit_reason,
                   envVars, bookVars, polled, startBook, callVars, convVars,
                   playBook, polled_uri, stopBook>>

\* the scheduler runs the second thread: its local variables become the
\* ones the loop actions work on
Switch ==
    /\ Alive(other.pc)
    /\ other' = [pc |-> pc, max_duration_set |-> max_duration_set,
                 next_uri |-> next_uri, attempt |-> attempt, snap |-> snap]
    /\ pc' = other.pc
    /\ max_duration_set' = other.max_duration_set
    /\ next_uri' = other.next_uri
    /\ attempt' = other.attempt
    /\ snap' = other.snap
    /\ UNCHANGED <<jitVars, qmVars, fgVars, exit_reason, envVars, bookVars,
                   polled, startBook, callVars, convVars, playBook, polled_uri,
                   stopBook, starts>>

NextReentry ==
    \/ \E q \in InitialQueues : start_dj_session(q)
    \/ stop_session
    \/ start_injection_thread(FALSE)
    \/ start_injection_thread_again(FALSE)
    \/ Switch
    \/ ThreadEntry
    \/ LoopWhile
    \/ LoopStatus
    \/ LoopDetect
    \/ LoopSleep
    \/ LoopShouldInject
    \/ LoopIsEmpty
    \/ LoopPeek
    \/ LoopAttemptWith(TRUE)
    \/ LoopPop
    \/ EnvStop

SpecReentry == Init /\ [][NextReentry]_vars

(***************************************************************************)
(* A QueueManager used directly by one caller, as test_jit_queue.py does:  *)
(* no session, no injection thread.  Every call runs from the acquisition  *)
(* of the lock to its release.                                             *)
(***************************************************************************)
\* the record of a call and of what it returned
Called(method, result) ==
    /\ last_call' = method
    /\ prev_call' = last_call
    /\ returned' = result

sessionVars == <<running, last_injected_uri, last_played_uri,
                 already_injected_for_current, debug_writer, lock, fgVars,
                 loopVars, envVars, stop_requested, inj_since_change,
                 retryBook, failBook, update_returned, pops_since_update,
                 polled, start_playback_requested, convVars, playBook,
                 polled_uri, stopBook, reentryVars>>

\* QueueManager(songs_list, client)
qm_init(songs_list) ==
    /\ ~queue_manager
    /\ queue_manager' = TRUE
    /\ songs_with_uris' = ResolveSongs(songs_list)
    /\ current_index' = 0
    /\ update_arg' = songs_list
    /\ Called("__init__", None)
    /\ UNCHANGED <<sessionVars, start_arg, index_before_update>>

qm_update_queue(new_songs_list) ==
    /\ queue_manager
    /\ songs_with_uris' = ConvertSongs(<<>>, new_songs_list)
    /\ current_index' = IndexAfterUpdate(current_index)
    /\ update_arg' = new_songs_list
    /\ index_before_update' = current_index
    /\ Called("update_queue", None)
    /\ UNCHANGED <<sessionVars, queue_manager, start_arg>>

qm_get_next_song ==
    /\ queue_manager
    /\ current_index' = IndexAfterPop(songs_with_uris, current_index)
    /\ Called("get_next_song", get_next_song(songs_with_uris, current_index))
    /\ UNCHANGED <<sessionVars, queue_manager, songs_with_uris, start_arg,
                   update_arg, index_before_update>>

qm_peek_next_song ==
    /\ queue_manager
    /\ Called("peek_next_song", peek_next_song(songs_with_uris, current_index))
    /\ UNCHANGED <<sessionVars, queue_manager, songs_with_uris, current_index,
                   start_arg, update_arg, index_before_update>>

qm_get_next_track_uri ==
    /\ queue_manager
    /\ Called("get_next_track_uri",
              get_next_track_uri(songs_with_uris, current_index))
    /\ UNCHANGED <<sessionVars, queue_manager, songs_with_uris, current_index,
                   start_arg, update_arg, index_before_update>>

qm_is_empty ==
    /\ queue_manager
    /\ Called("is_empty", is_empty(songs_with_uris, current_index))
    /\ UNCHANGED <<sessionVars, queue_manager, songs_with_uris, current_index,
                   start_arg, update_arg, index_before_update>>

qm_queue_length ==
    /\ queue_manager
    /\ Called("queue_length", queue_length(songs_with_uris, current_index))
    /\ UNCHANGED <<sessionVars, queue_manager, songs_with_uris, current_index,
                   start_arg, update_arg, index_before_update>>

NextQueue ==
    \/ \E list \in SongLists : qm_init(list)
    \/ \E list \in SongLists : qm_update_queue(list)
    \/ qm_get_next_song
    \/ qm_peek_next_song
    \/ qm_get_next_track_uri
    \/ qm_is_empty
    \/ qm_queue_length

SpecQueue == Init /\ [][NextQueue]_vars

(***************************************************************************)
(* ConversationHistory (conversation.py).                                  *)
(***************************************************************************)
\* the message texts
Texts == {"play jazz", "ok"}

UserMessage(text) == [role |-> "user", content |-> text]

\* add_assistant_response storing its text under the user's role
AssistantMessage_as_user(text) == [role |-> "user", content |-> text]

AssistantMessage(text) == [role |-> "assistant", content |-> text]

\* the record of one call of a ConversationHistory
Call(method, text) ==
    /\ Len(calls) < MaxCalls
    /\ calls' = Append(calls, <<method, text>>)

notConvVars == <<jitVars, qmVars, fgVars, loopVars, envVars, bookVars, polled,
                 startBook, callVars, playBook, polled_uri, stopBook,
                 reentryVars>>

\* get_history returning self.messages itself
CopyOfList_same(list) == [items |-> list, shared |-> TRUE]

\* list.copy(): another list object with the same items
CopyOfList(list) == [items |-> list, shared |-> FALSE]

\* the returned list after a write to the stored list
HistoryAfter(stored) == IF history_shared THEN stored ELSE history

add_user_message(text) ==
    /\ Call("add_user_message", text)
    /\ messages' = Append(messages, UserMessage(text))
    /\ history' = HistoryAfter(messages')
    /\ UNCHANGED <<history_shared, notConvVars>>

add_assistant_response(text) ==
    /\ Call("add_assistant_response", text)
    /\ messages' = Append(messages, AssistantMessage(text))
    /\ history' = HistoryAfter(messages')
    /\ UNCHANGED <<history_shared, notConvVars>>

\* get_history returns a copy of the list
get_history ==
    /\ Call("get_history", None)
    /\ history' = CopyOfList(messages).items
    /\ history_shared' = CopyOfList(messages).shared
    /\ UNCHANGED <<messages, notConvVars>>

\* clear binds self.messages to a new empty list
clear ==
    /\ Call("clear", None)
    /\ messages' = <<>>
    /\ history_shared' = FALSE
    /\ UNCHANGED <<history, notConvVars>>

\* the caller appends a message to the list get_history returned
\* (test_conversation.py, test 6)
caller_appends(text) ==
    /\ Call("caller_append", text)
    /\ history' = Append(history, UserMessage(text))
    /\ messages' = IF history_shared THEN history' ELSE messages
    /\ UNCHANGED <<history_shared, notConvVars>>

\* the caller removes the last message of the list get_history returned
caller_removes ==
    /\ history # <<>>
    /\ Call("caller_remove", None)
    /\ history' = SubSeq(history, 1, Len(history) - 1)
    /\ messages' = IF history_shared THEN history' ELSE messages
    /\ UNCHANGED <<history_shared, notConvVars>>

NextConversation ==
    \/ \E text \in Texts : add_user_message(text)
    \/ \E text \in Texts : add_assistant_response(text)
    \/ get_history
    \/ clear
    \/ \E text \in Texts : caller_appends(text)
    \/ caller_removes

SpecConversation == Init /\ [][NextConversation]_vars

(***************************************************************************)
(* The main loop of main.py, one step per iteration, as far as the         *)
(* conversation history goes.  An iteration adds the user's message, asks  *)
(* the LLM with a copy of the history, adds the summary of the suggestion, *)
(* and starts the session (until one has started) or updates it; on every  *)
(* failure it removes what it added from conversation_history.messages.    *)
(* Of the session only whether it has started is kept (jit_started is      *)
(* started = "true"); what an iteration ended with is kept in returned.    *)
(***************************************************************************)
\* what get_queue_suggestion does: a list, an empty list, or an exception
LLMResults == {"suggestion", "empty", "ValueError", "Exception"}

\* main.py:161, the text stored for the assistant
QueueSummary(suggested_queue) ==
    IF Len(suggested_queue) = 2 THEN "Suggested 2 songs" ELSE "Suggested 3 songs"

\* a removal of the first item of the list
Pop_first(list) == Tail(list)

\* conversation_history.messages.pop(): the last item is removed
Pop(list) == SubSeq(list, 1, Len(list) - 1)

\* the iteration ends with the history as given and the outcome recorded
IterationEnds(history_left, result) ==
    /\ messages' = history_left
    /\ returned' = result

\* lines 78-215: one iteration of the main loop on a message that is
\* neither empty nor an exit command
main_loop_iteration(user_input, queue_fetched, llm_result, suggested_queue, playback_started, raised) ==
    /\ fg = "idle"
    /\ pc = "idle"
    /\ last_call' = "main"
    /\ prev_call' = last_call
    /\ IF ~queue_fetched
       THEN \* lines 109-122: get_current_queue raised
            /\ IterationEnds(messages, "queue_error")
            /\ UNCHANGED <<history, history_shared, started>>
       ELSE LET with_user == Append(messages, UserMessage(user_input))
                with_reply == Append(with_user,
                                     AssistantMessage(QueueSummary(suggested_queue)))
            IN /\ history' = CopyOfList(with_user).items
               /\ history_shared' = CopyOfList(with_user).shared
               /\ IF llm_result # "suggestion"
                  THEN \* lines 135-156
                       /\ IterationEnds(Pop(with_user), llm_result)
                       /\ UNCHANGED started
                  ELSE IF raised
                  THEN \* lines 204-209
                       /\ IterationEnds(Pop(Pop(with_reply)), "sync_raised")
                       /\ UNCHANGED started
                  ELSE IF started # "true"
                  THEN \* lines 167-177: the first session
                       IF NoFirstTrack(ResolveSongs(suggested_queue))
                          \/ ~playback_started
                       THEN /\ IterationEnds(Pop(Pop(with_reply)), "start_failed")
                            /\ started' = "false"
                       ELSE /\ Len(messages) < 2 * MaxTurns
                            /\ IterationEnds(with_reply, "started")
                            /\ started' = "true"
                  ELSE \* lines 192-202: the session is updated
                       IF ~update_shadow_queue_result(TRUE)
                       THEN /\ IterationEnds(Pop(Pop(with_reply)), "update_failed")
                            /\ UNCHANGED started
                       ELSE /\ Len(messages) < 2 * MaxTurns
                            /\ IterationEnds(with_reply, "updated")
                            /\ UNCHANGED started
    /\ UNCHANGED <<jitVars, qmVars, fg, pending, updates, loopVars, envVars,
                   bookVars, polled, startBook, index_before_update, calls,
                   playBook, polled_uri, stopBook, reentryVars>>

NextCli ==
    \E user_input \in Texts, queue_fetched \in BOOLEAN, llm_result \in LLMResults,
       suggested_queue \in InitialQueues \ {<<>>}, playback_started \in BOOLEAN,
       raised \in BOOLEAN :
        main_loop_iteration(user_input, queue_fetched, llm_result, suggested_queue,
                            playback_started, raised)

SpecCli == Init /\ [][NextCli]_vars

(***************************************************************************)
(* Properties.                                                             *)
(***************************************************************************)
\* the thread is between the eligibility decision and the end of the injection
InjectPhase == pc \in {"empty", "peek", "attempt", "retry_sleep", "pop"}

\* C1: after a successful start_dj_session, before the loop and any update,
\* the first resolved item has been consumed: queue_length() is the number
\* of resolved items minus one, last_injected_uri is the first item's URI
\* and the other items follow in order.
C1_StartConsumesFirst ==
    (started = "true" /\ pc = "idle" /\ updates = 0) =>
        /\ queue_length(songs_with_uris, current_index) = Len(songs_with_uris) - 1
        /\ last_injected_uri = songs_with_uris[1]
        /\ SubSeq(songs_with_uris, current_index + 1, Len(songs_with_uris))
             = Tail(songs_with_uris)

\* C2: in a session started with [A, B, C] and never updated, once the first
\* injection is done the live queue holds B's URI, queue_length() is 1 and
\* last_injected_uri is B's URI.
C2_FirstInjectionIsSecondItem ==
    ( /\ started = "true"
      /\ updates = 0
      /\ songs_with_uris = <<"uA", "uB", "uC">>
      /\ Len(extQueue) = 1
      /\ pops_since_update = 1 ) =>
        /\ extQueue[1] = "uB"
        /\ queue_length(songs_with_uris, current_index) = 1
        /\ last_injected_uri = "uB"

\* C3: between two changes of the track that is playing, at most one
\* injection succeeds.
C3_OneInjectionPerTrack == inj_since_change <= 1

C5_NextInjectionFromNewList ==
    [][ (update_returned /\ Len(extQueue') > Len(extQueue)) =>
            /\ ResolveSongs(update_arg) # <<>>
            /\ extQueue'[Len(extQueue')] = Head(ResolveSongs(update_arg)) ]_vars

\* C6: the step that reports an injection failed changes neither the shadow
\* queue, nor the latch, nor last_injected_uri, and the loop goes on; the
\* next peek, with no update_queue since the failed injection's peek, yields
\* the same URI.
C6_FailedInjectionRetried ==
    [][ /\ (outcome' = "failed" /\ outcome # "failed") =>
              /\ UNCHANGED <<songs_with_uris, current_index,
                             already_injected_for_current, last_injected_uri,
                             running>>
              /\ pc' = "while"
        /\ (pc = "peek" /\ pc' = "attempt" /\ failed_uri # None) =>
              next_uri' = failed_uri ]_vars

\* C6 witness: an injection failed and the same URI is being attempted again
C6_Witness ==
    /\ pc = "attempt"
    /\ failed_uri # None
    /\ next_uri = failed_uri
    /\ running

\* C7: an injection makes at most RETRY_ATTEMPTS attempts, ends at the first
\* success, takes the retry delay only between attempts, and is reported
\* failed only after RETRY_ATTEMPTS failed attempts.
C7_BoundedRetry ==
    /\ attempts_made <= RETRY_ATTEMPTS
    /\ delays_made <= fails_made
    /\ outcome = "ok" =>
         /\ fails_made = attempts_made - 1
         /\ delays_made = attempts_made - 1
    /\ outcome = "failed" =>
         /\ attempts_made = RETRY_ATTEMPTS
         /\ fails_made = RETRY_ATTEMPTS
         /\ delays_made = RETRY_ATTEMPTS - 1
    /\ (outcome = "ok" /\ fails_made = 2) =>
         (attempts_made = 3 /\ delays_made = 2)

\* C7 witness: two failed attempts, then a success
C7_Witness ==
    /\ outcome = "ok"
    /\ fails_made = 2
    /\ attempts_made = 3
    /\ delays_made = 2

\* C8: with a threshold of 15 s, an injection is only under way in a cycle
\* whose status left at most 15 s (for a 200 s track: progress >= 185 s),
\* and a cycle that ended without injection on a playing 200 s track with
\* progress >= 185 s had the latch set.
C8_ThresholdEligibility ==
    /\ InjectPhase =>
         /\ snap.ok /\ snap.is_playing
         /\ snap.duration_ms - snap.progress_ms <= 15000
         /\ snap.duration_ms = 200000 => snap.progress_ms >= 185000
    /\ ( /\ pc = "while" /\ outcome = None
         /\ snap.ok /\ snap.is_playing
         /\ snap.duration_ms = 200000
         /\ snap.progress_ms >= 185000 ) => already_injected_for_current

\* C8 witness: an attempt in a cycle decided at exactly 185 s of 200 s
C8_Witness ==
    /\ pc = "attempt"
    /\ snap.is_playing
    /\ snap.duration_ms = 200000
    /\ snap.progress_ms = 185000

\* C9: an eligible cycle that finds the shadow queue exhausted ends the loop
\* in that step, as a normal end and with nothing appended.
C9_ExhaustedQueueStops ==
    [][ ( /\ pc \in {"empty", "peek"}
          /\ pc' # pc
          /\ current_index >= Len(songs_with_uris) ) =>
            /\ pc' = "done"
            /\ exit_reason' = "exhausted"
            /\ ~running'
            /\ attempts_made' = 0
            /\ UNCHANGED <<extQueue, qmVars>> ]_vars

\* C9 witness: the loop ended on the exhausted queue while a track plays
C9_Witness ==
    /\ pc = "done"
    /\ exit_reason = "exhausted"
    /\ envPlaying
    /\ envItem # None
    /\ current_index >= Len(songs_with_uris)

\* C10: once stop_session has been called after start_injection_thread, the
\* next evaluation of the loop condition ends the loop.
C10_StopObservedAtLoopTop ==
    [][ (started = "true" /\ stop_requested /\ pc = "while" /\ pc' # "while")
            => pc' = "done" ]_vars

\* C11: a cycle whose status request failed or reported no playback ends
\* the loop in that step: running becomes False, no append is attempted and
\* the shadow queue is unchanged.
C11_NoPlaybackStopsLoop ==
    [][ (pc = "status" /\ polled' \in {"unavailable", "not_playing"}) =>
            /\ pc' = "done"
            /\ exit_reason' = "playback_stopped"
            /\ ~running'
            /\ attempts_made' = 0
            /\ UNCHANGED <<extQueue, songs_with_uris, current_index>> ]_vars

\* C11 witness: a started session with items left whose loop ended on a
\* failed status request
C11_Witness ==
    /\ pc = "done"
    /\ polled = "unavailable"
    /\ started = "true"
    /\ ~running
    /\ current_index < Len(songs_with_uris)


\* C12: no exception raised inside the loop leaves the injection thread:
\* each one is caught and logged and ends the loop, and running is False
\* once the loop has ended.
C12_NoFailureEscapes ==
    /\ exit_reason # "escaped"
    /\ pc = "done" => ~running

\* C13: the cursor of the shadow queue stays between 0 and the length of
\* the stored list, whatever the foreground and the injection thread do.
C13_CursorWithinList ==
    /\ 0 <= current_index
    /\ current_index <= Len(songs_with_uris)

\* C13 witness: a pop found the cursor at the end of the list that an update
\* had installed, and left it there
C13_Witness ==
    /\ updates >= 1
    /\ fg = "idle"
    /\ current_index = Len(songs_with_uris)
    /\ pops_since_update > current_index

IsStorable(song) == HasTitleAndArtist(song) /\ search_track(song) # None

Peeks == {"peek_next_song", "get_next_track_uri"}

\* C15: get_next_song with the cursor before the end returns the item at the
\* cursor and moves the cursor by one; with the cursor at the end (an empty
\* list included) get_next_song, peek_next_song and get_next_track_uri
\* return None and leave the cursor and the list as they are.
C15_PopAtCursor ==
    [][ /\ (last_call' = "get_next_song" /\ current_index < Len(songs_with_uris)) =>
              /\ returned' # None
              /\ search_track(returned') = songs_with_uris[current_index + 1]
              /\ current_index' = current_index + 1
              /\ songs_with_uris' = songs_with_uris
        /\ ( /\ last_call' \in Peeks \cup {"get_next_song"}
             /\ current_index = Len(songs_with_uris) ) =>
              /\ returned' = None
              /\ UNCHANGED <<current_index, songs_with_uris>> ]_vars

\* C15 witness: both items of a list were popped, the second being "B", and
\* a third get_next_song then returned None with the cursor still at 2
C15_Witness ==
    /\ songs_with_uris = <<"uA", "uB">>
    /\ current_index = 2
    /\ prev_call = "get_next_song"
    /\ last_call = "get_next_song"
    /\ returned = None

\* C16: peek_next_song and get_next_track_uri change neither the cursor nor
\* the list; two of them in a row return the same, and a get_next_song
\* right after one of them returns the item the peek referred to.
C16_PeekIsPure ==
    [][ /\ last_call' \in Peeks => UNCHANGED <<current_index, songs_with_uris>>
        /\ (last_call \in Peeks /\ last_call' = last_call) => returned' = returned
        /\ (last_call = "peek_next_song" /\ last_call' = "get_next_song") =>
              returned' = returned
        /\ (last_call = "get_next_track_uri" /\ last_call' = "get_next_song") =>
              IF returned = None THEN returned' = None
              ELSE returned' # None /\ search_track(returned') = returned
        /\ (last_call = "peek_next_song" /\ last_call' = "get_next_track_uri") =>
              IF returned = None THEN returned' = None
              ELSE search_track(returned) = returned' ]_vars

\* C16 witness: peek_next_song returned "B" with the cursor at 1, and the
\* get_next_song after it returned "B" too
C16_Witness ==
    /\ songs_with_uris = <<"uA", "uB">>
    /\ prev_call = "peek_next_song"
    /\ last_call = "get_next_song"
    /\ returned = "B"
    /\ current_index = 2

\* the input items that can be stored, in input order
StorableItems(list) == SelectSeq(list, IsStorable)

\* C18: __init__ and update_queue store exactly the items of their argument
\* that have a title and an artist and that the search finds, in input
\* order; every stored entry has a URI; the other items are dropped and the
\* list may end up empty.
C18_StoresResolvedItemsOnly ==
    queue_manager =>
        /\ Len(songs_with_uris) = Len(StorableItems(update_arg))
        /\ \A i \in 1..Len(songs_with_uris) :
              /\ songs_with_uris[i] # None
              /\ songs_with_uris[i] = search_track(StorableItems(update_arg)[i])

\* C18 witness: update_queue was given an item without artist and an item
\* the search does not find, and stored nothing
C18_Witness ==
    /\ last_call = "update_queue"
    /\ update_arg = <<"M", "X">>
    /\ songs_with_uris = <<>>
    /\ index_before_update = 1

\* C19: start_dj_session called with an empty list, or with a list of which
\* no item resolves, returns False without a start_playback request and
\* leaves last_injected_uri unset.
C19_StartFailsWithoutItems ==
    [][ (started = "no" /\ started' # "no" /\ StorableItems(start_arg') = <<>>) =>
            /\ started' = "false"
            /\ ~start_playback_requested'
            /\ last_injected_uri' = None
            /\ UNCHANGED <<envItem, envPlaying>> ]_vars

\* C19 witness: start_dj_session returned False for a list of two items,
\* one the search does not find and one without artist
C19_Witness ==
    /\ started = "false"
    /\ start_arg = <<"X", "M">>
    /\ queue_manager
    /\ songs_with_uris = <<>>
    /\ ~start_playback_requested
    /\ last_injected_uri = None

\* the position of the last clear among the calls, 0 when there is none
LastClear(cs) ==
    LET clears == { i \in 1..Len(cs) : cs[i][1] = "clear" }
    IN IF clears = {} THEN 0
       ELSE CHOOSE i \in clears : \A j \in clears : j <= i

IsAdd(call) == call[1] \in {"add_user_message", "add_assistant_response"}

\* the add calls made since the last clear, oldest first
AddsSinceClear(cs) == SelectSeq(SubSeq(cs, LastClear(cs) + 1, Len(cs)), IsAdd)

\* C20: what get_history returns is the list of the messages added since
\* the last clear (since construction when there was none), in the order of
\* the calls, each with the role of the call that added it.
C20_HistoryIsAddsSinceClear ==
    (calls # <<>> /\ calls[Len(calls)][1] = "get_history") =>
        LET adds == AddsSinceClear(calls)
        IN /\ Len(history) = Len(adds)
           /\ \A i \in 1..Len(adds) :
                 /\ history[i].content = adds[i][2]
                 /\ history[i].role = IF adds[i][1] = "add_user_message"
                                      THEN "user" ELSE "assistant"

\* C20 witness: a user message, a clear, an assistant response, and a
\* get_history that returned the assistant response alone
C20_Witness ==
    /\ Len(calls) = 4
    /\ calls[1][1] = "add_user_message"
    /\ calls[2][1] = "clear"
    /\ calls[3] = <<"add_assistant_response", "ok">>
    /\ calls[4][1] = "get_history"
    /\ Len(history) = 1
    /\ history[1].role = "assistant"
    /\ history[1].content = "ok"

\* C21: a change the caller makes to the list get_history returned leaves
\* the stored messages alone, and the next get_history returns them.
C21_ReturnedListIsIndependent ==
    [][ /\ ( /\ calls' # calls
             /\ calls'[Len(calls')][1] \in {"caller_append", "caller_remove"} ) =>
              messages' = messages
        /\ (calls' # calls /\ calls'[Len(calls')][1] = "get_history") =>
              history' = messages ]_vars

\* C21 witness: a message was added, the caller appended to the returned
\* list, and the second get_history returned the one message
C21_Witness ==
    /\ Len(calls) = 4
    /\ calls[1][1] = "add_user_message"
    /\ calls[2][1] = "get_history"
    /\ calls[3][1] = "caller_append"
    /\ calls[4][1] = "get_history"
    /\ Len(history) = 1
    /\ history[1].content = calls[1][2]

\* C22: in a started session the lock of the shadow queue is not held while
\* a search request of update_queue is outstanding, so that no is_empty,
\* peek or pop of the injection thread waits for a search.
C22_LockNotHeldDuringResolve ==
    (started = "true" /\ pc \in {"empty", "peek", "pop"}) =>
        ~(lock = "fg" /\ pending # <<>>)

\* C23: the item get_next_song removes after a successful injection is the
\* item whose URI was just appended to the live queue.
C23_PoppedItemWasInjected ==
    [][ (pc = "pop" /\ pc' = "while" /\ current_index' = current_index + 1) =>
            /\ extQueue # <<>>
            /\ songs_with_uris[current_index + 1] = extQueue[Len(extQueue)] ]_vars

\* C24: when the player advances through the live queue, every append
\* succeeds and neither stop_session nor update_shadow_queue is called, a
\* loop that ended because playback ended has injected every item of the
\* shadow queue.
C24_AllItemsInjected ==
    ( /\ pc = "done"
      /\ started = "true"
      /\ exit_reason = "playback_stopped"
      /\ polled = "not_playing"
      /\ last_played_uri = envItem ) =>
        current_index >= Len(songs_with_uris)

\* the step of the loop that decides eligibility on a playing status
EligibilityDecided ==
    /\ pc = "should" /\ pc' # "should"
    /\ snap'.ok /\ snap'.is_playing

\* the eligibility the specification computes from a status
EligibleByRemaining(status) ==
    /\ Max(0, status.duration_ms - status.progress_ms)
           <= INJECTION_THRESHOLD * MsPerSecond
    /\ ~already_injected_for_current

\* C25 (as stated): for every playing status the cycle goes on to inject
\* exactly when max(0, duration - progress) <= threshold and the latch is
\* clear, also with progress > duration and with duration = 0.
C25_EligibilityEverySnapshot ==
    [][ EligibilityDecided => ((pc' = "empty") <=> EligibleByRemaining(snap')) ]_vars

\* C25 (amended): the same for every playing status with duration > 0,
\* progress > duration included; a playing status with duration = 0 is never
\* eligible.
C25_EligibilityPositiveDuration ==
    [][ EligibilityDecided =>
          /\ snap'.duration_ms > 0 =>
                ((pc' = "empty") <=> EligibleByRemaining(snap'))
          /\ snap'.duration_ms <= 0 => pc' = "while" ]_vars

\* C25 witness: a cycle went on to inject on a status with progress beyond
\* a positive duration
C25_Witness ==
    /\ pc = "empty"
    /\ snap.is_playing
    /\ snap.duration_ms > 0
    /\ snap.progress_ms > snap.duration_ms

\* the track-change step of a cycle, completed with the polled identifier
\* in polled_uri'
DetectDone == pc = "detect" /\ pc' = "sleep"

\* the track-change branch was taken, or was not
LatchClearedIff(changed) ==
    IF changed
    THEN /\ last_played_uri' = polled_uri'
         /\ already_injected_for_current' = FALSE
    ELSE UNCHANGED <<last_played_uri, already_injected_for_current>>

\* C26 (as stated): in each cycle the latch is cleared and the last observed
\* identifier replaced exactly when the polled identifier differs from it,
\* and it then equals the polled identifier; otherwise both keep their value.
C26_UpdatedIffDifferent ==
    [][ DetectDone => LatchClearedIff(polled_uri' # last_played_uri) ]_vars

\* C26 (amended): the same with "the polled identifier is present and
\* differs": a poll that reports no playing item changes neither.
C26_UpdatedIffPresentAndDifferent ==
    [][ DetectDone =>
          LatchClearedIff(polled_uri' # None /\ polled_uri' # last_played_uri)
      ]_vars

\* C26 witness: after an injection a cycle polled a new identifier, took it
\* over and cleared the latch
C26_Witness ==
    /\ pc = "sleep"
    /\ polled_uri # None
    /\ last_played_uri = polled_uri
    /\ ~already_injected_for_current
    /\ current_index > 0

\* C27: the step that completes a successful injection moves the cursor of
\* the shadow queue on by exactly one, sets the latch and records the
\* appended identifier as last injected; a cycle step that decides, peeks,
\* fails or retries changes none of the three.
C27_SuccessAdvancesByOne ==
    [][ /\ (pc = "pop" /\ pc' = "while") =>
              /\ current_index' = current_index + 1
              /\ already_injected_for_current'
              /\ last_injected_uri' = next_uri
        /\ ( /\ pc \in {"should", "empty", "peek", "attempt", "retry_sleep"}
             /\ pc' # pc ) =>
              UNCHANGED <<current_index, already_injected_for_current,
                          last_injected_uri>>
      ]_vars

\* C28: a started session whose only loop has reached Stopped (by stop,
\* exhausted queue, no playback, timeout or error) has no loop running
\* afterwards, whatever is called on it.
C28_StoppedIsTerminal ==
    ( /\ started = "true"
      /\ other = NoThread
      /\ exit_reason \notin {None, "no_queue_manager"} ) =>
          ~(running /\ pc \in RunningPcs)

\* C29: at no time are two threads inside the loop of one started session:
\* a start request beside a running loop starts no second one.
C29_SingleActiveLoop ==
    started = "true" => ~(pc \in RunningPcs /\ other.pc \in RunningPcs)

\* C30: after stop_session was called while the loop was running, the cycle
\* in progress is not cut short (a poll sleep goes on to the eligibility
\* decision, a retry delay to the next attempt), the next evaluation of the
\* loop condition ends the loop, and at most one successful injection, with
\* its pop, happens after the call.
C30_StopIsCooperative ==
    [][ stopped_running =>
          /\ inj_after_stop' <= 1
          /\ (pc = "sleep" /\ pc' # pc) => pc' = "should"
          /\ (pc = "retry_sleep" /\ pc' # pc) => pc' = "attempt"
          /\ (pc = "attempt" /\ inj_after_stop' > inj_after_stop) => pc' = "pop"
          /\ (pc = "pop" /\ pc' # pc) =>
                (pc' = "while" /\ already_injected_for_current')
          /\ (pc = "while" /\ pc' # pc) => pc' = "done"
          /\ pc = "done" => inj_after_stop' = inj_after_stop
      ]_vars

\* C30 witness: the loop has ended on the stop request after the one
\* injection that was under way when stop_session was called
C30_Witness ==
    /\ stopped_running
    /\ inj_after_stop = 1
    /\ pc = "done"
    /\ exit_reason = "stopped"
    /\ already_injected_for_current

\* the loop condition is evaluated with the flag set: an iteration begins
IterationBegins == pc = "while" /\ running /\ pc' # pc

\* C31: with a maximal duration given, an iteration that begins after the
\* elapsed time exceeds it ends the loop as a timeout in that step, without
\* a status query and without an append attempt; with none given an
\* iteration that begins goes on to the status query however much time has
\* passed, and no loop ends as a timeout.
C31_TimeoutBeforePolling ==
    [][ /\ ( /\ IterationBegins
             /\ max_duration_set
             /\ elapsed > SessionDuration ) =>
                /\ pc' = "done"
                /\ exit_reason' = "timeout"
                /\ ~running'
                /\ polled' = None
                /\ attempts_made' = 0
                /\ extQueue' = extQueue
        /\ (IterationBegins /\ ~max_duration_set) => pc' = "status"
        /\ exit_reason' = "timeout" => max_duration_set
      ]_vars

\* C31 witness: a loop started with a maximal duration has injected and
\* then ended as a timeout
C31_Witness ==
    /\ pc = "done"
    /\ exit_reason = "timeout"
    /\ max_duration_set
    /\ elapsed > SessionDuration
    /\ current_index > 0

\* C32: after start_dj_session returned False the injection loop, when run,
\* queries neither the playback status nor the playing item and appends
\* nothing to the live queue.
C32_FailedStartRunsNothing ==
    started = "false" =>
        /\ polled = None
        /\ polled_uri = None
        /\ snap = NoStatus
        /\ extQueue = <<>>

\* C33: the debug writer has no part in scheduling: in a started session the
\* step that emits the cycle record, whatever the state of the writer,
\* leaves the loop where the loop without a writer is after its sleep (at
\* the eligibility decision), with the flag, the exit reason, the injection
\* state, the shadow queue and the live queue as they were.
C33_WriterNeverInfluencesLoop ==
    [][ (started = "true" /\ pc = "log" /\ pc' # pc) =>
          /\ pc' = "should"
          /\ UNCHANGED <<running, exit_reason, last_injected_uri,
                         last_played_uri, already_injected_for_current,
                         songs_with_uris, current_index, extQueue>>
      ]_vars

\* C34: a call of update_shadow_queue on an object without a shadow queue
\* returns False and starts no conversion of its list; on a started session
\* the call is taken up, and it returns True with the stored list the
\* resolved items of its argument, none included.
C34_UpdateReturnsWhetherReplaced ==
    [][ /\ (~queue_manager /\ updates' > updates) =>
              /\ returned' = FALSE
              /\ fg' = "idle"
              /\ pending' = <<>>
              /\ UNCHANGED <<update_arg, songs_with_uris, current_index, lock>>
        /\ (started = "true" /\ updates' > updates) => fg' = "updating"
        /\ (started = "true" /\ fg = "updating" /\ fg' = "idle") =>
              /\ returned' = TRUE
              /\ songs_with_uris' = ResolveSongs(update_arg)
      ]_vars

\* C34 witness: update_shadow_queue has returned True on a started session
\* with a list of which nothing is stored
C34_Witness ==
    /\ started = "true"
    /\ last_call = "update_shadow_queue"
    /\ returned = TRUE
    /\ fg = "idle"
    /\ songs_with_uris = <<>>
    /\ pc \notin {"idle", "done"}

\* a step of update_shadow_queue: the call is made, its list is converted,
\* or it returns
UpdateStep ==
    \/ updates' > updates
    \/ fg = "updating" /\ (pending' # pending \/ fg' # fg)

\* C35: a step of update_shadow_queue changes nothing of the session but
\* the stored list and the cursor: the latch, last_injected_uri,
\* last_played_uri and the running flag keep their values, no thread is
\* started, and the injection thread stays where it is, also after its loop
\* has ended.
C35_UpdateFrame ==
    [][ UpdateStep =>
          UNCHANGED <<already_injected_for_current, last_injected_uri,
                      last_played_uri, running, pc, starts, exit_reason,
                      extQueue>>
      ]_vars

\* C35 witness: an update has returned after the loop had ended, with the
\* latch set and the flag cleared as the loop left them
C35_Witness ==
    /\ pc = "done"
    /\ ~running
    /\ already_injected_for_current
    /\ last_call = "update_shadow_queue"
    /\ returned = TRUE
    /\ fg = "idle"
    /\ pops_since_update = 0
    /\ songs_with_uris # <<>>

\* the identifier of the last request that succeeded, given the appends that
\* succeeded: the last of them, or else the identifier start_playback was
\* given when it succeeded, or else none
LastSuccess(appended) ==
    IF appended # <<>> THEN appended[Len(appended)]
    ELSE IF started = "true"
         THEN get_next_track_uri(ResolveSongs(start_arg), 0)
         ELSE None

IterationFailures == {"empty", "ValueError", "Exception", "start_failed",
                      "update_failed", "sync_raised"}

\* complete user/assistant pairs in alternating order
PairsAlternate(list) ==
    /\ Len(list) % 2 = 0
    /\ \A i \in 1..Len(list) :
          list[i].role = IF i % 2 = 1 THEN "user" ELSE "assistant"

\* C37: an iteration of the main loop that fails (empty or unparsable
\* suggestion, LLM error, failed start, failed or raising update) leaves
\* the conversation history as it was before it, and after every iteration
\* the history is a sequence of complete user/assistant pairs.
C37_FailedIterationKeepsHistory ==
    [][ /\ returned' \in IterationFailures => messages' = messages
        /\ PairsAlternate(messages') ]_vars

\* C37 witness: with two pairs stored and a session started, an iteration
\* whose update raised has ended: the LLM was given five messages and the
\* history holds the two pairs again
C37_Witness ==
    /\ last_call = "main"
    /\ returned = "sync_raised"
    /\ started = "true"
    /\ Len(messages) = 4
    /\ Len(history) = 5

====================================================================
